---- MODULE Spec2Model ----
(***************************************************************************)
(* Model of fetch_current_week.py: the week computation, the per-day URL,  *)
(* the extraction of course records from a page's markup, and the linear   *)
(* session of main() (launch, login, seven fetch-and-extract steps, close, *)
(* print).                                                                 *)
(*                                                                         *)
(* Text is a sequence of one-character strings, so that formatting,        *)
(* stripping and line splitting are computed and not assumed; the literal  *)
(* pieces of a template are kept whole, a line break always on its own.    *)
(***************************************************************************)
EXTENDS Integers, Sequences, FiniteSets

VARIABLES
    pc,              \* position of the run (or of the function under test)
    today,           \* the date dateutil.utils.today().date() returns
    monday,          \* main: monday
    days_of_week,    \* main: days_of_week
    i,               \* main: index of the day the loop is at (1..7)
    url,             \* main: url of the last page.goto of the loop
    html,            \* main: html = page.content()
    cours_list,      \* main: cours_list = parse_courses(html)
    all_cours_week,  \* main: all_cours_week
    playwright,      \* the sync_playwright() context: "none", "running", "stopped"
    browser,         \* the browser object: "none", "open", "closed"
    authenticated,   \* what the site made of the login: "unknown", "yes", "no"
    stdout,          \* characters written to standard output
    exit_status,     \* <<>> while the process runs, then <<0>> or <<1>>
    events,          \* history of the session's operations, in order
    dt2,             \* a second date given to build_url_for_date
    url2,            \* its URL
    prev_list,       \* the list the previous parse_courses call returned
    calls            \* number of parse_courses calls made

vars == <<pc, today, monday, days_of_week, i, url, html, cours_list,
          all_cours_week, playwright, browser, authenticated, stdout,
          exit_status, events, dt2, url2, prev_list, calls>>

-----------------------------------------------------------------------------
(* Bounds of the model *)

\* days after each anchor date taken as reference dates
RefSpan == 13
\* cells in a row of the exhaustively enumerated one-row pages
MaxCells == 2
\* rows in a page assembled from RowPool
MaxRows == 2
\* parse_courses calls on the same markup
MaxCalls == 3

-----------------------------------------------------------------------------
(* Text helpers *)

RECURSIVE Flatten(_)
Flatten(ss) == IF ss = <<>> THEN <<>> ELSE Head(ss) \o Flatten(Tail(ss))

DigitChars == <<"0", "1", "2", "3", "4", "5", "6", "7", "8", "9">>

\* str(n) / f"{n}" of a non-negative int
RECURSIVE Decimal(_)
Decimal(n) ==
    IF n < 10 THEN <<DigitChars[n + 1]>>
    ELSE Decimal(n \div 10) \o <<DigitChars[(n % 10) + 1]>>

\* "%0<w>d" % n
RECURSIVE ZeroPad(_, _)
ZeroPad(s, w) == IF Len(s) >= w THEN s ELSE ZeroPad(<<"0">> \o s, w)

-----------------------------------------------------------------------------
(* datetime.date: a date is [year, month, day]; arithmetic goes through the *)
(* proleptic Gregorian ordinal, as in the datetime module.                  *)

Date(y, m, d) == [year |-> y, month |-> m, day |-> d]

DAYS_IN_MONTH == <<31, 28, 31, 30, 31, 30, 31, 31, 30, 31, 30, 31>>
DAYS_BEFORE_MONTH == <<0, 31, 59, 90, 120, 151, 181, 212, 243, 273, 304, 334>>

is_leap(y) == y % 4 = 0 /\ (y % 100 # 0 \/ y % 400 = 0)

days_before_year(y) ==
    LET y1 == y - 1 IN y1 * 365 + (y1 \div 4) - (y1 \div 100) + (y1 \div 400)

days_before_month(y, m) ==
    DAYS_BEFORE_MONTH[m] + (IF m > 2 /\ is_leap(y) THEN 1 ELSE 0)

toordinal(dt) ==
    days_before_year(dt.year) + days_before_month(dt.year, dt.month) + dt.day

fromordinal(ord) ==
    LET n0   == ord - 1
        n400 == n0 \div 146097
        r400 == n0 % 146097
        n100 == r400 \div 36524
        r100 == r400 % 36524
        n4   == r100 \div 1461
        r4   == r100 % 1461
        n1   == r4 \div 365
        n    == r4 % 365
        year == n400 * 400 + 1 + n100 * 100 + n4 * 4 + n1
    IN  IF n1 = 4 \/ n100 = 4 THEN Date(year - 1, 12, 31)
        ELSE
          LET leapyear == n1 = 3 /\ (n4 # 24 \/ n100 = 3)
              m0   == (n + 50) \div 32
              pre0 == DAYS_BEFORE_MONTH[m0] + (IF m0 > 2 /\ leapyear THEN 1 ELSE 0)
              mon  == IF pre0 > n THEN m0 - 1 ELSE m0
              pre  == IF pre0 > n
                      THEN pre0 - (DAYS_IN_MONTH[mon]
                                   + (IF mon = 2 /\ leapyear THEN 1 ELSE 0))
                      ELSE pre0
          IN  Date(year, mon, n - pre + 1)

\* dt.weekday(): Monday is 0
weekday(dt) == (toordinal(dt) + 6) % 7

\* dt + datetime.timedelta(days=k)
add_days(dt, k) == fromordinal(toordinal(dt) + k)

\* dt.isoformat()
isoformat(dt) ==
    ZeroPad(Decimal(dt.year), 4) \o <<"-">> \o ZeroPad(Decimal(dt.month), 2)
        \o <<"-">> \o ZeroPad(Decimal(dt.day), 2)

\* d + relativedelta(weekday=MO(+1)): forward to the nearest Monday, d included
relativedelta_MO_plus1(d) == add_days(d, (7 - weekday(d) + 0) % 7)

\* d + relativedelta(weekday=MO(-1)): back to the nearest Monday, d included
relativedelta_MO_minus1(d) == add_days(d, 0 - ((weekday(d) - 0) % 7))

\* get_monday_of_current_week, with the clock's date as its input
get_monday_of_current_week(d) == relativedelta_MO_minus1(d)

NumDays == 7

\* [monday + datetime.timedelta(days=i) for i in range(7)]
week_days(mon) == [k \in 1..NumDays |-> add_days(mon, k - 1)]

-----------------------------------------------------------------------------
(* URL_TEMPLATE and build_url_for_date.  The template is kept as its literal *)
(* pieces and its one replacement field.                                    *)

DateField == "{date}"

URL_TEMPLATE ==
    << "https://ws-edt-cd.wigorservices.net/",
       "WebPsDyn.aspx?action=posEDTLMS&serverID=C&Tel=lelia.kozan&date=",
       DateField,
       "&hashURL=..." >>

\* URL_TEMPLATE.format(date=date_str)
format_date(template, date_str) ==
    Flatten([k \in 1..Len(template) |->
                IF template[k] = DateField THEN date_str ELSE <<template[k]>>])

\* the other order the docstring speaks of
date_str_DMY(dt) ==
    Decimal(dt.day) \o <<"/">> \o Decimal(dt.month) \o <<"/">> \o Decimal(dt.year)

\* f"{dt.month}/{dt.day}/{dt.year}"
date_str_MDY(dt) ==
    Decimal(dt.month) \o <<"/">> \o Decimal(dt.day) \o <<"/">> \o Decimal(dt.year)

build_url_for_date(dt) == format_date(URL_TEMPLATE, date_str_MDY(dt))

-----------------------------------------------------------------------------
(* The parsed document.  A node is a text node (tag "#text", its characters *)
(* in text) or an element (tag, set of classes, optional href attribute,    *)
(* children in document order).  A page's markup is the sequence of its     *)
(* top-level nodes.                                                         *)

Node(tag, cls, hasHref, href, text, kids) ==
    [tag |-> tag, cls |-> cls, hasHref |-> hasHref, href |-> href,
     text |-> text, kids |-> kids]

Txt(s) == Node("#text", {}, FALSE, <<>>, s, <<>>)
El(tag, cls, kids) == Node(tag, cls, FALSE, <<>>, <<>>, kids)
Link(href, kids) == Node("a", {}, TRUE, href, <<>>, kids)

\* Python's None, as select_one returns it
None == Node("#None", {}, FALSE, <<>>, <<>>, <<>>)

\* what an unguarded access would raise
AttributeError == <<"<AttributeError>">>
KeyError == <<"<KeyError>">>

Summary(node) == [tag |-> node.tag, cls |-> node.cls]

\* the descendants of a sequence of sibling nodes in document order, each
\* with the chain of its ancestors (outermost first)
RECURSIVE Descendants(_, _)
Descendants(kids, anc) ==
    IF kids = <<>> THEN <<>>
    ELSE LET n == Head(kids)
         IN  <<[node |-> n, anc |-> anc]>>
                 \o Descendants(n.kids, Append(anc, Summary(n)))
                 \o Descendants(Tail(kids), anc)

\* a CSS selector "tag.cls" or "atag.acls tag": cls "" means no class test,
\* atag "" means no ancestor test
Selector(atag, acls, tag, cls) ==
    [atag |-> atag, acls |-> acls, tag |-> tag, cls |-> cls]

CSS_ROW   == Selector("", "", "tr", "")
CSS_COURS == Selector("", "", "td", "TCase")
CSS_SALLE == Selector("", "", "td", "TCSalle")
CSS_DEBUT == Selector("", "", "td", "TChdeb")
CSS_FIN   == Selector("", "", "td", "TChfin")
CSS_PROF  == Selector("", "", "td", "TCProf")
CSS_TEAMS == Selector("div", "Teams", "a", "")

Matches(e, sel) ==
    /\ e.node.tag = sel.tag
    /\ sel.cls = "" \/ sel.cls \in e.node.cls
    /\ sel.atag = "" \/ \E k \in 1..Len(e.anc) :
                            e.anc[k].tag = sel.atag /\ sel.acls \in e.anc[k].cls

\* soup.select(sel): every match in the document, in document order
select(markup, sel) ==
    SelectSeq(Descendants(markup, <<>>), LAMBDA e : Matches(e, sel))

\* row.select_one(sel): the first match below row, or None
select_one(row, sel) ==
    LET found == SelectSeq(Descendants(row.node.kids,
                                       Append(row.anc, Summary(row.node))),
                           LAMBDA e : Matches(e, sel))
    IN  IF found = <<>> THEN None ELSE found[1].node

\* bool(tag): a Tag is true whatever it holds; None is false
truthy(el) == el # None

Whitespace == {" ", "\t", "\n", "\r"}

\* str.strip()
RECURSIVE lstrip(_)
lstrip(s) ==
    IF s # <<>> /\ Head(s) \in Whitespace THEN lstrip(Tail(s)) ELSE s

RECURSIVE rstrip(_)
rstrip(s) ==
    IF s # <<>> /\ s[Len(s)] \in Whitespace
    THEN rstrip(SubSeq(s, 1, Len(s) - 1)) ELSE s

strip(s) == rstrip(lstrip(s))

\* the text nodes at or below a sequence of siblings, in document order
RECURSIVE all_strings(_)
all_strings(kids) ==
    IF kids = <<>> THEN <<>>
    ELSE LET n == Head(kids)
         IN  (IF n.tag = "#text" THEN <<n.text>> ELSE all_strings(n.kids))
                 \o all_strings(Tail(kids))

\* el.get_text(strip=True): every string stripped, the empty ones dropped,
\* the rest joined with nothing between them
get_text_strip(el) ==
    IF el = None THEN AttributeError
    ELSE Flatten(SelectSeq([k \in 1..Len(all_strings(el.kids)) |->
                                strip(all_strings(el.kids)[k])],
                           LAMBDA s : s # <<>>))

has_attr_href(el) == IF el = None THEN FALSE ELSE el.hasHref

\* el["href"]
get_href(el) ==
    IF el = None THEN AttributeError
    ELSE IF ~el.hasHref THEN KeyError
    ELSE el.href

-----------------------------------------------------------------------------
(* parse_courses *)

\* td_x.get_text(strip=True), without the test for a missing cell
text_unguarded(td) == get_text_strip(td)

\* td_x.get_text(strip=True) if td_x else ""
text_or_empty(td) == IF truthy(td) THEN get_text_strip(td) ELSE <<>>

\* a_teams["href"] if a_teams and a_teams.has_attr("href") else ""
href_or_empty(a_teams) ==
    IF truthy(a_teams) /\ has_attr_href(a_teams) THEN get_href(a_teams) ELSE <<>>

\* the dict built for a row that has a course cell
cours_info(row, td_cours) ==
    [nom_cours   |-> get_text_strip(td_cours),
     heure_debut |-> text_or_empty(select_one(row, CSS_DEBUT)),
     heure_fin   |-> text_or_empty(select_one(row, CSS_FIN)),
     salle       |-> text_or_empty(select_one(row, CSS_SALLE)),
     prof        |-> text_or_empty(select_one(row, CSS_PROF)),
     teams       |-> href_or_empty(select_one(row, CSS_TEAMS))]

\* a test that also takes a cell without content for a missing one
skip_row_if_empty(td_cours) == td_cours = None \/ td_cours.kids = <<>>

\* "if not td_cours: continue"
skip_row(td_cours) == ~truthy(td_cours)

\* the for loop over rows, all_cours being the list built so far
RECURSIVE parse_loop(_, _)
parse_loop(rows, all_cours) ==
    IF rows = <<>> THEN all_cours
    ELSE LET row == Head(rows)
             td_cours == select_one(row, CSS_COURS)
         IN  IF skip_row(td_cours)
             THEN parse_loop(Tail(rows), all_cours)
             ELSE parse_loop(Tail(rows),
                             Append(all_cours, cours_info(row, td_cours)))

parse_courses(markup) == parse_loop(select(markup, CSS_ROW), <<>>)

-----------------------------------------------------------------------------
(* Markup given to parse_courses.  Two families: pages of one row holding   *)
(* every sequence of up to MaxCells cells of CellPool, and pages of up to   *)
(* MaxRows rows of RowPool (header rows, partial rows, repeated cells, a    *)
(* fully populated row, a row holding a nested table).                      *)

CellClasses == {"TCase", "TCSalle", "TChdeb", "TChfin", "TCProf"}

ClassChar ==
    [c \in CellClasses |->
        CASE c = "TCase" -> "M" [] c = "TCSalle" -> "B" [] c = "TChdeb" -> "8"
          [] c = "TChfin" -> "9" [] c = "TCProf" -> "X"]

TeamsUrl == <<"h", "t", "t", "p", "s", ":", "/", "/", "t", "/", "x">>

\* <td class=c>\n  M 1 \t</td>, <td class=c></td>, <td class=c>M <b> b</b></td>
CellVariants(c) ==
    { El("td", {c}, <<Txt(<<"\n", " ", ClassChar[c], " ", "1", " ", "\t">>)>>),
      El("td", {c}, <<>>),
      El("td", {c}, <<Txt(<<ClassChar[c], " ">>),
                      El("b", {}, <<Txt(<<" ", "b">>)>>)>>) }

CellPool ==
    UNION {CellVariants(c) : c \in CellClasses}
      \cup { El("td", {}, <<Txt(<<"p", "l", "a", "i", "n">>)>>),
             El("td", {"TCase", "TCSalle"}, <<Txt(<<"M", "B">>)>>),
             El("div", {"Teams"}, <<Link(TeamsUrl, <<Txt(<<"T">>)>>)>>),
             El("div", {"Teams"}, <<Link(<<>>, <<>>)>>),
             El("div", {"Teams"}, <<El("a", {}, <<Txt(<<"T">>)>>)>>),
             El("td", {}, <<Link(<<"/", "o">>, <<Txt(<<"o">>)>>)>>) }

SeqsUpTo(S, n) == UNION {[1..k -> S] : k \in 0..n}

OneRowPages == {<<El("tr", {}, cells)>> : cells \in SeqsUpTo(CellPool, MaxCells)}

Chars_Math  == <<"M", "a", "t", "h">>
Chars_0800  == <<"0", "8", ":", "0", "0">>
Chars_0930  == <<"0", "9", ":", "3", "0">>
Chars_B204  == <<"B", "2", "0", "4">>
Chars_DrX   == <<"D", "r", ".", " ", "X">>
Chars_Teams == <<"h", "t", "t", "p", "s", ":", "/", "/", "t", "e", "a", "m", "s",
                 ".", "e", "x", "a", "m", "p", "l", "e", "/", "x">>

Td(c, s) == El("td", {c}, <<Txt(s)>>)

RowHeader == El("tr", {}, <<El("th", {}, <<Txt(<<"H">>)>>)>>)
RowOnlyName == El("tr", {}, <<Td("TCase", Chars_Math)>>)
RowFull ==
    El("tr", {"LigneEdt"},
       << Td("TChdeb", Chars_0800), Td("TChfin", Chars_0930),
          Td("TCase", Chars_Math), Td("TCSalle", Chars_B204),
          Td("TCProf", Chars_DrX),
          El("td", {}, <<El("div", {"Teams"},
                            <<Link(Chars_Teams, <<Txt(<<"T">>)>>)>>)>>) >>)
RowNoName == El("tr", {}, <<Td("TCSalle", Chars_B204), Td("TCProf", Chars_DrX)>>)
RowTwoNames ==
    El("tr", {}, <<Td("TCase", <<" ", "A", "\n">>), Td("TCase", <<"Z">>),
                   Td("TCProf", <<"P", "\n", "Q">>)>>)
RowNested ==
    El("tr", {},
       << Td("TCSalle", <<"O">>),
          El("td", {}, <<El("table", {},
                            <<El("tr", {}, <<Td("TCase", <<"I">>),
                                             Td("TCSalle", <<"J">>)>>)>>)>>) >>)

RowPool == {RowHeader, RowOnlyName, RowFull, RowNoName, RowTwoNames, RowNested}

\* the rows sit in a table, after a heading
InTable(rows) ==
    << El("h1", {}, <<Txt(<<"E", "D", "T">>)>>), El("table", {}, rows) >>

MultiRowPages == {InTable(rows) : rows \in SeqsUpTo(RowPool, MaxRows)}

Markups == OneRowPages \cup MultiRowPages

-----------------------------------------------------------------------------
(* Values the variables hold while another specification runs *)

NoDate == Date(0, 0, 0)

IdleSession ==
    /\ playwright = "none" /\ browser = "none" /\ authenticated = "unknown"
    /\ stdout = <<>> /\ exit_status = <<>> /\ events = <<>>
    /\ all_cours_week = <<>>

IdleDates ==
    /\ today = NoDate /\ monday = NoDate /\ days_of_week = <<>> /\ i = 0
    /\ url = <<>> /\ dt2 = NoDate /\ url2 = <<>>

IdleParse == html = <<>> /\ cours_list = <<>> /\ prev_list = <<>> /\ calls = 0

sessionVars == <<playwright, browser, authenticated, stdout, exit_status,
                 events, all_cours_week>>
dateVars == <<today, monday, days_of_week, i, url, dt2, url2>>
parseVars == <<html, cours_list, prev_list, calls>>

-----------------------------------------------------------------------------
(* SpecParse: parse_courses called, and called again, on one markup *)

InitParse ==
    /\ pc = "parse"
    /\ html \in Markups
    /\ cours_list = <<>> /\ prev_list = <<>> /\ calls = 0
    /\ IdleSession /\ IdleDates

\* a variant of the call that goes on from the list of the call before
CallParseCoursesKeepingList ==
    /\ pc = "parse"
    /\ calls < MaxCalls
    /\ cours_list' = parse_loop(select(html, CSS_ROW), cours_list)
    /\ prev_list' = cours_list
    /\ calls' = calls + 1
    /\ UNCHANGED <<pc, html, sessionVars, dateVars>>

\* one call parse_courses(html); its result is kept, with the one before
CallParseCourses ==
    /\ pc = "parse"
    /\ calls < MaxCalls
    /\ cours_list' = parse_courses(html)
    /\ prev_list' = cours_list
    /\ calls' = calls + 1
    /\ UNCHANGED <<pc, html, sessionVars, dateVars>>

NextParse == CallParseCourses

SpecParse == InitParse /\ [][NextParse]_vars

-----------------------------------------------------------------------------
(* SpecDate: the week of a reference date and the URLs of its days *)

AnchorDates ==
    { Date(2023, 2, 20), Date(2024, 2, 22), Date(2024, 12, 23),
      Date(2026, 11, 2), Date(2100, 2, 22) }

RefDates == {add_days(a, k) : a \in AnchorDates, k \in 0..RefSpan}

UrlDates ==
    { Date(2024, 1, 11), Date(2024, 11, 1), Date(2024, 1, 1), Date(2024, 11, 11),
      Date(2024, 3, 5), Date(2024, 5, 3), Date(2024, 12, 31), Date(2025, 1, 1) }

InitDate ==
    /\ pc = "week"
    /\ today \in RefDates
    /\ dt2 \in UrlDates
    /\ monday = NoDate /\ days_of_week = <<>> /\ i = 0
    /\ url = <<>> /\ url2 = <<>>
    /\ IdleSession /\ IdleParse

\* monday = get_monday_of_current_week(); days_of_week = [...]
ComputeWeek ==
    /\ pc = "week"
    /\ monday' = get_monday_of_current_week(today)
    /\ days_of_week' = week_days(monday')
    /\ pc' = "urls"
    /\ UNCHANGED <<today, i, url, dt2, url2, sessionVars, parseVars>>

\* url = build_url_for_date(day) for the next day of the week
BuildDayUrl ==
    /\ pc = "urls"
    /\ i < NumDays
    /\ i' = i + 1
    /\ url' = build_url_for_date(days_of_week[i'])
    /\ UNCHANGED <<pc, today, monday, days_of_week, dt2, url2, sessionVars,
                   parseVars>>

\* build_url_for_date applied to a date of its own
BuildOtherUrl ==
    /\ url2 = <<>>
    /\ url2' = build_url_for_date(dt2)
    /\ UNCHANGED <<pc, today, monday, days_of_week, i, url, dt2, sessionVars,
                   parseVars>>

NextDate == ComputeWeek \/ BuildDayUrl \/ BuildOtherUrl

SpecDate == InitDate /\ [][NextDate]_vars

-----------------------------------------------------------------------------
(* The calendar, stated without ordinals *)

MonthLength(y, m) ==
    IF m = 2 THEN (IF is_leap(y) THEN 29 ELSE 28)
    ELSE IF m \in {4, 6, 9, 11} THEN 30 ELSE 31

IsCalendarDate(dt) ==
    /\ dt.year >= 1 /\ dt.month \in 1..12
    /\ dt.day \in 1..MonthLength(dt.year, dt.month)

DayAfter(dt) ==
    IF dt.day < MonthLength(dt.year, dt.month) THEN Date(dt.year, dt.month, dt.day + 1)
    ELSE IF dt.month < 12 THEN Date(dt.year, dt.month + 1, 1)
    ELSE Date(dt.year + 1, 1, 1)

\* C4: once the week is computed it is 7 dates, each the calendar day after
\* the one before, the first a Monday (weekday 0) that is today or one of
\* the 6 days before today, and today itself when today is a Monday; today
\* is one of the 7.
C4_WeekWindow ==
    pc = "urls" =>
        /\ Len(days_of_week) = 7
        /\ \A k \in 1..7 : IsCalendarDate(days_of_week[k])
        /\ \A k \in 1..6 : days_of_week[k + 1] = DayAfter(days_of_week[k])
        /\ days_of_week[1] = monday
        /\ weekday(monday) = 0
        /\ toordinal(today) - toordinal(monday) \in 0..6
        /\ toordinal(today) - toordinal(monday) = weekday(today)
        /\ (weekday(today) = 0 => monday = today)
        /\ \E k \in 1..7 : days_of_week[k] = today

\* a week computed for a day that is not a Monday, across a month's end
C4_Witness ==
    /\ pc = "urls"
    /\ weekday(today) = 3
    /\ monday.month # days_of_week[7].month
    /\ monday # today

-----------------------------------------------------------------------------
(* Reading a URL back *)

Digits == {DigitChars[k] : k \in 1..10}

DigitValue(c) == (CHOOSE k \in 1..10 : DigitChars[k] = c) - 1

RECURSIVE DecValue(_)
DecValue(s) ==
    IF s = <<>> THEN 0
    ELSE 10 * DecValue(SubSeq(s, 1, Len(s) - 1)) + DigitValue(s[Len(s)])

\* a decimal numeral with no leading zero
IsNumeral(s) ==
    /\ s # <<>>
    /\ \A k \in 1..Len(s) : s[k] \in Digits
    /\ s[1] # "0"

FieldAt == CHOOSE k \in 1..Len(URL_TEMPLATE) : URL_TEMPLATE[k] = DateField

\* u is the template with its field replaced by m/d/y of dt
IsUrlOf(u, dt) ==
    \E a, b, c \in 1..4 :
        LET lo == FieldAt
            s1 == lo + a
            s2 == s1 + 1 + b
            hi == s2 + c
        IN  /\ Len(u) = hi + (Len(URL_TEMPLATE) - FieldAt)
            /\ SubSeq(u, 1, lo - 1) = SubSeq(URL_TEMPLATE, 1, FieldAt - 1)
            /\ SubSeq(u, hi + 1, Len(u))
                 = SubSeq(URL_TEMPLATE, FieldAt + 1, Len(URL_TEMPLATE))
            /\ u[s1] = "/" /\ u[s2] = "/"
            /\ IsNumeral(SubSeq(u, lo, s1 - 1))
            /\ IsNumeral(SubSeq(u, s1 + 1, s2 - 1))
            /\ IsNumeral(SubSeq(u, s2 + 1, hi))
            /\ DecValue(SubSeq(u, lo, s1 - 1)) = dt.month
            /\ DecValue(SubSeq(u, s1 + 1, s2 - 1)) = dt.day
            /\ DecValue(SubSeq(u, s2 + 1, hi)) = dt.year

\* C6: a URL built for a date is the template with its one field replaced by
\* month/day/year of that date, each a decimal numeral without leading zero,
\* the rest of the template unchanged; the URLs of two different dates differ.
C6_UrlOfDate ==
    /\ Cardinality({k \in 1..Len(URL_TEMPLATE) : URL_TEMPLATE[k] = DateField}) = 1
    /\ (pc = "urls" /\ i >= 1 => IsUrlOf(url, days_of_week[i]))
    /\ (url2 # <<>> => IsUrlOf(url2, dt2))
    /\ (pc = "urls" /\ i >= 1 /\ url2 # <<>> /\ days_of_week[i] # dt2
            => url # url2)
    /\ (pc = "urls" /\ i >= 1 /\ url2 # <<>> /\ days_of_week[i] = dt2
            => url = url2)

\* URLs built for a one-digit month and day and for another date
C6_Witness ==
    /\ pc = "urls" /\ i >= 1 /\ url2 # <<>>
    /\ days_of_week[i] = Date(2024, 3, 5)
    /\ dt2 = Date(2024, 5, 3)
    /\ url # url2

-----------------------------------------------------------------------------
(* main() *)

\* c["date"] = day.isoformat()
add_date(c, day) ==
    [nom_cours |-> c.nom_cours, heure_debut |-> c.heure_debut,
     heure_fin |-> c.heure_fin, salle |-> c.salle, prof |-> c.prof,
     teams |-> c.teams, date |-> isoformat(day)]

\* for c in cours_list: c["date"] = day.isoformat()
tag_with_date(list, day) == [k \in 1..Len(list) |-> add_date(list[k], day)]

\* print(s): s and a line break
print(s) == s \o <<"\n">>

HEADER == <<"=== COURS DE LA SEMAINE EN COURS ===", "\n">>

\* the f-string of the report's loop
format_cours(c) ==
    <<"- ">> \o c.date \o <<" : ">> \o c.heure_debut \o <<" - ">> \o c.heure_fin
        \o <<" | ">> \o c.nom_cours \o <<" (Salle: ">> \o c.salle
        \o <<", Prof: ">> \o c.prof \o <<", Teams: ">> \o c.teams \o <<")">>

\* print(header), then print(line) for c in all_cours_week
report(list) ==
    print(HEADER) \o Flatten([k \in 1..Len(list) |-> print(format_cours(list[k]))])

Event(op, day, page) == [op |-> op, day |-> day, page |-> page]

\* pages the site may render for a day
PageNone == InTable(<<RowHeader>>)
PageTwo == InTable(<<RowHeader, RowFull, RowOnlyName>>)
PageSame == InTable(<<RowTwoNames, RowNoName, RowTwoNames>>)

SitePages == {PageNone, PageTwo, PageSame}

RunDates == {Date(2024, 2, 29), Date(2024, 12, 30)}

Init ==
    /\ pc = "start"
    /\ today \in RunDates
    /\ monday = NoDate /\ days_of_week = <<>> /\ i = 0
    /\ url = <<>> /\ dt2 = NoDate /\ url2 = <<>>
    /\ IdleSession /\ IdleParse

\* monday = get_monday_of_current_week(); days_of_week = [...]
Start ==
    /\ pc = "start"
    /\ monday' = get_monday_of_current_week(today)
    /\ days_of_week' = week_days(monday')
    /\ pc' = "enter"
    /\ UNCHANGED <<today, i, url, dt2, url2, sessionVars, parseVars>>

\* with sync_playwright() as p:
EnterPlaywright ==
    /\ pc = "enter"
    /\ playwright' = "running"
    /\ pc' = "launch"
    /\ UNCHANGED <<dateVars, parseVars, browser, authenticated, stdout,
                   exit_status, events, all_cours_week>>

\* browser = p.chromium.launch(headless=True); page = browser.new_page()
Launch ==
    /\ pc = "launch"
    /\ browser' = "open"
    /\ events' = Append(events, Event("open", NoDate, <<>>))
    /\ pc' = "login"
    /\ UNCHANGED <<dateVars, parseVars, playwright, authenticated, stdout,
                   exit_status, all_cours_week>>

\* a login step that looks at what the site answered
LoginChecked ==
    /\ pc = "login"
    /\ \E outcome \in {"yes", "no"} :
          /\ authenticated' = outcome
          /\ events' = Append(events, Event("login", NoDate, <<>>))
          /\ IF outcome = "yes"
             THEN /\ pc' = "fetch" /\ i' = 1 /\ exit_status' = exit_status
                  /\ playwright' = playwright
             ELSE /\ pc' = "aborted" /\ i' = i /\ exit_status' = <<1>>
                  /\ playwright' = "stopped"
    /\ all_cours_week' = <<>>
    /\ UNCHANGED <<today, monday, days_of_week, url, dt2, url2, parseVars,
                   browser, stdout>>

\* goto(URL_LOGIN), fill, fill, click, wait_for_load_state, sleep; then
\* all_cours_week = [].  The site accepts the credentials or not; nothing
\* here reads which.
Login ==
    /\ pc = "login"
    /\ authenticated' \in {"yes", "no"}
    /\ events' = Append(events, Event("login", NoDate, <<>>))
    /\ all_cours_week' = <<>>
    /\ i' = 1
    /\ pc' = "fetch"
    /\ UNCHANGED <<today, monday, days_of_week, url, dt2, url2, parseVars,
                   playwright, browser, stdout, exit_status>>

\* the loop taking the days last to first
FetchDescending ==
    /\ pc = "fetch"
    /\ url' = build_url_for_date(days_of_week[NumDays + 1 - i])
    /\ html' \in SitePages
    /\ events' = Append(events, Event("fetch", days_of_week[NumDays + 1 - i], html'))
    /\ pc' = "extract"
    /\ UNCHANGED <<today, monday, days_of_week, i, dt2, url2, cours_list,
                   prev_list, calls, playwright, browser, authenticated, stdout,
                   exit_status, all_cours_week>>

\* url = build_url_for_date(day); page.goto(url); wait_for_load_state;
\* sleep; html = page.content()
Fetch ==
    /\ pc = "fetch"
    /\ url' = build_url_for_date(days_of_week[i])
    /\ html' \in SitePages
    /\ events' = Append(events, Event("fetch", days_of_week[i], html'))
    /\ pc' = "extract"
    /\ UNCHANGED <<today, monday, days_of_week, i, dt2, url2, cours_list,
                   prev_list, calls, playwright, browser, authenticated, stdout,
                   exit_status, all_cours_week>>

\* the extraction putting the day's records before those already held
ExtractPrepending ==
    /\ pc = "extract"
    /\ LET list == tag_with_date(parse_courses(html), days_of_week[i])
       IN  /\ cours_list' = list
           /\ all_cours_week' = list \o all_cours_week
    /\ events' = Append(events, Event("extract", days_of_week[i], <<>>))
    /\ i' = IF i < NumDays THEN i + 1 ELSE i
    /\ pc' = IF i < NumDays THEN "fetch" ELSE "close"
    /\ UNCHANGED <<today, monday, days_of_week, url, dt2, url2, html,
                   prev_list, calls, playwright, browser, authenticated, stdout,
                   exit_status>>

\* cours_list = parse_courses(html); the date set on each; extend; next day
Extract ==
    /\ pc = "extract"
    /\ LET list == tag_with_date(parse_courses(html), days_of_week[i])
       IN  /\ cours_list' = list
           /\ all_cours_week' = all_cours_week \o list
    /\ events' = Append(events, Event("extract", days_of_week[i], <<>>))
    /\ i' = IF i < NumDays THEN i + 1 ELSE i
    /\ pc' = IF i < NumDays THEN "fetch" ELSE "close"
    /\ UNCHANGED <<today, monday, days_of_week, url, dt2, url2, html,
                   prev_list, calls, playwright, browser, authenticated, stdout,
                   exit_status>>

\* browser.close(), then the end of the with block
Close ==
    /\ pc = "close"
    /\ browser' = "closed"
    /\ playwright' = "stopped"
    /\ events' = Append(events, Event("close", NoDate, <<>>))
    /\ pc' = "print"
    /\ UNCHANGED <<dateVars, parseVars, authenticated, stdout, exit_status,
                   all_cours_week>>

\* the two print statements after the with block; the process then ends
PrintReport ==
    /\ pc = "print"
    /\ stdout' = stdout \o report(all_cours_week)
    /\ events' = Append(events, Event("print", NoDate, <<>>))
    /\ exit_status' = <<0>>
    /\ pc' = "done"
    /\ UNCHANGED <<dateVars, parseVars, playwright, browser, authenticated,
                   all_cours_week>>

ErrorSteps == {"enter", "launch", "login", "fetch", "close"}

\* an error handler that releases the browser on the way out
UncaughtErrorWithCleanup ==
    /\ pc \in ErrorSteps
    /\ events' = Append(events, Event("error", NoDate, <<>>))
    /\ playwright' = IF playwright = "running" THEN "stopped" ELSE playwright
    /\ browser' = IF browser = "open" THEN "closed" ELSE browser
    /\ exit_status' = <<1>>
    /\ pc' = "aborted"
    /\ UNCHANGED <<dateVars, parseVars, authenticated, stdout, all_cours_week>>

\* an error handler that prints what was collected so far
UncaughtErrorPrintingPartial ==
    /\ pc \in ErrorSteps
    /\ events' = Append(events, Event("error", NoDate, <<>>))
    /\ playwright' = IF playwright = "running" THEN "stopped" ELSE playwright
    /\ stdout' = stdout \o report(all_cours_week)
    /\ exit_status' = <<1>>
    /\ pc' = "aborted"
    /\ UNCHANGED <<dateVars, parseVars, browser, authenticated, all_cours_week>>

\* a playwright call raises (start, launch, goto, fill, click, wait, content,
\* close): nothing catches it, the with block is left (its manager's exit
\* runs if it was entered), browser.close() and the prints are not reached,
\* the interpreter ends with status 1
UncaughtError ==
    /\ pc \in ErrorSteps
    /\ events' = Append(events, Event("error", NoDate, <<>>))
    /\ playwright' = IF playwright = "running" THEN "stopped" ELSE playwright
    /\ exit_status' = <<1>>
    /\ pc' = "aborted"
    /\ UNCHANGED <<dateVars, parseVars, browser, authenticated, stdout,
                   all_cours_week>>

Next ==
    \/ Start
    \/ EnterPlaywright
    \/ Launch
    \/ Login
    \/ Fetch
    \/ Extract
    \/ Close
    \/ PrintReport
    \/ UncaughtError

Spec == Init /\ [][Next]_vars

-----------------------------------------------------------------------------
(* What a row holds, stated on the document *)

\* the elements below a row, in document order
Below(row) == Descendants(row.node.kids, Append(row.anc, Summary(row.node)))

IsCell(e, c) == e.node.tag = "td" /\ c \in e.node.cls

IsTeamsLink(e) ==
    /\ e.node.tag = "a"
    /\ \E k \in 1..Len(e.anc) : e.anc[k].tag = "div" /\ "Teams" \in e.anc[k].cls

HasCell(row, c) == \E k \in 1..Len(Below(row)) : IsCell(Below(row)[k], c)

\* the first cell of class c below the row
FirstCell(row, c) ==
    LET k == CHOOSE j \in 1..Len(Below(row)) :
                 /\ IsCell(Below(row)[j], c)
                 /\ \A h \in 1..(j - 1) : ~IsCell(Below(row)[h], c)
    IN  Below(row)[k].node

HasTeamsLink(row) == \E k \in 1..Len(Below(row)) : IsTeamsLink(Below(row)[k])

FirstTeamsLink(row) ==
    LET k == CHOOSE j \in 1..Len(Below(row)) :
                 /\ IsTeamsLink(Below(row)[j])
                 /\ \A h \in 1..(j - 1) : ~IsTeamsLink(Below(row)[h])
    IN  Below(row)[k].node

\* every tr of the page, in document order, and those with a course cell
TableRows(markup) ==
    SelectSeq(Descendants(markup, <<>>), LAMBDA e : e.node.tag = "tr")

CourseRows(markup) ==
    SelectSeq(TableRows(markup), LAMBDA r : HasCell(r, "TCase"))

\* the text of a cell as it stands: its strings one after the other
RawText(cell) == Flatten(all_strings(cell.kids))

\* t is s without the white space at its two ends
IsTrimOf(t, s) ==
    /\ \E a, b \in 0..Len(s) :
          /\ a + b <= Len(s)
          /\ t = SubSeq(s, a + 1, Len(s) - b)
          /\ \A k \in 1..a : s[k] \in Whitespace
          /\ \A k \in (Len(s) - b + 1)..Len(s) : s[k] \in Whitespace
    /\ t = <<>> \/ (t[1] \notin Whitespace /\ t[Len(t)] \notin Whitespace)

\* s without the white space at its two ends
Trimmed(s) ==
    CHOOSE t \in {SubSeq(s, a, b) : a \in 1..(Len(s) + 1), b \in 0..Len(s)} :
        IsTrimOf(t, s)

\* t is the strings of the cell, each trimmed, joined
IsTrimmedText(t, cell) ==
    LET ss == all_strings(cell.kids)
    IN  t = Flatten([k \in 1..Len(ss) |-> Trimmed(ss[k])])

IsError(v) == v = AttributeError \/ v = KeyError

\* C1: the list a call returns holds one record for every tr of the page
\* that has a td.TCase below it, in the document order of those rows, and
\* nothing for the other rows; no such row, an empty list.
C1_OneRecordPerCourseRow ==
    calls >= 1 =>
        /\ Len(cours_list) = Len(CourseRows(html))
        /\ Len(cours_list) <= Len(TableRows(html))
        /\ \A k \in 1..Len(cours_list) :
              IsTrimmedText(cours_list[k].nom_cours,
                            FirstCell(CourseRows(html)[k], "TCase"))
        /\ (CourseRows(html) = <<>> => cours_list = <<>>)

\* a page with a header row and a row holding nothing but a course cell
C1_Witness ==
    /\ calls >= 1
    /\ html = InTable(<<RowHeader, RowOnlyName>>)
    /\ Len(TableRows(html)) = 2
    /\ Len(cours_list) = 1

\* a one-row page whose course cell is empty: still one record
C1_WitnessEmptyCell ==
    /\ calls >= 1
    /\ html = <<El("tr", {}, <<El("td", {"TCase"}, <<>>)>>)>>
    /\ Len(cours_list) = 1

FieldCell == [salle |-> "TCSalle", heure_debut |-> "TChdeb",
              heure_fin |-> "TChfin", prof |-> "TCProf"]

\* C2 as stated: each of room, start, end and instructor is the text of the
\* cell its selector matches in the row, the link is the href of the row's
\* link, and a missing element gives the empty string.
C2_FieldsAreCellText ==
    calls >= 1 =>
        \A k \in 1..Len(cours_list) :
            LET row == CourseRows(html)[k]
                c == cours_list[k]
            IN  /\ \A f \in DOMAIN FieldCell :
                      c[f] = IF HasCell(row, FieldCell[f])
                             THEN RawText(FirstCell(row, FieldCell[f]))
                             ELSE <<>>
                /\ c.teams = IF HasTeamsLink(row) /\ FirstTeamsLink(row).hasHref
                             THEN FirstTeamsLink(row).href ELSE <<>>

\* C2, amended: each of room, start, end and instructor is the text of the
\* first cell its selector matches below the row, every string of the cell
\* stripped of the white space at its ends and the strings joined; the link
\* is the href of the first div.Teams link below the row, as it stands; a
\* missing element, or a link without href, gives the empty string; no
\* field is an error.
C2_FieldsAreTrimmedCellText ==
    calls >= 1 =>
        \A k \in 1..Len(cours_list) :
            LET row == CourseRows(html)[k]
                c == cours_list[k]
            IN  /\ \A f \in DOMAIN FieldCell :
                      IF HasCell(row, FieldCell[f])
                      THEN IsTrimmedText(c[f], FirstCell(row, FieldCell[f]))
                      ELSE c[f] = <<>>
                /\ c.teams = IF HasTeamsLink(row) /\ FirstTeamsLink(row).hasHref
                             THEN FirstTeamsLink(row).href ELSE <<>>
                /\ \A f \in DOMAIN c : ~IsError(c[f])

\* the fully populated row gives its six values; the row with only a course
\* cell gives its name and empty fields
C2_Witness ==
    /\ calls >= 1
    /\ html = InTable(<<RowFull, RowOnlyName>>)
    /\ cours_list =
         << [nom_cours |-> Chars_Math, heure_debut |-> Chars_0800,
             heure_fin |-> Chars_0930, salle |-> Chars_B204,
             prof |-> Chars_DrX, teams |-> Chars_Teams],
            [nom_cours |-> Chars_Math, heure_debut |-> <<>>,
             heure_fin |-> <<>>, salle |-> <<>>, prof |-> <<>>,
             teams |-> <<>>] >>

-----------------------------------------------------------------------------
(* Reading the run back from its history and its output *)

\* the positions of the line breaks of a text, in order
BreaksOf(s) == SelectSeq([k \in 1..Len(s) |-> k], LAMBDA k : s[k] = "\n")

\* what stands between one line break and the next, and what follows the
\* last one if anything does
LinesBetween(s, brk) ==
    LET n == Len(brk)
        last == IF n = 0 THEN 0 ELSE brk[n]
        whole == [j \in 1..n |->
                    SubSeq(s, (IF j = 1 THEN 0 ELSE brk[j - 1]) + 1, brk[j] - 1)]
    IN  IF last = Len(s) THEN whole
        ELSE Append(whole, SubSeq(s, last + 1, Len(s)))

\* the lines of a text
Lines(s) == CHOOSE ls \in {LinesBetween(s, brk) : brk \in {BreaksOf(s)}} : TRUE

HeaderLine == <<"=== COURS DE LA SEMAINE EN COURS ===">>

Fetches == SelectSeq(events, LAMBDA e : e.op = "fetch")

HasEvent(op) == \E k \in 1..Len(events) : events[k].op = op

CountEvents(op) == Cardinality({k \in 1..Len(events) : events[k].op = op})

\* the records of the pages fetched, page after page, each page's records
\* in the order parse_courses gave them, with the date of the day fetched
RecordsFetched ==
    LET fetches == Fetches
    IN  Flatten([k \in 1..Len(fetches) |->
                    tag_with_date(parse_courses(fetches[k].page), fetches[k].day)])

\* for each of those records, the day whose page gave it
DaysOfRecords ==
    LET fetches == Fetches
    IN  Flatten([k \in 1..Len(fetches) |->
                    [j \in 1..Len(parse_courses(fetches[k].page)) |->
                        fetches[k].day]])

\* s is YYYY-MM-DD of dt
IsIsoOf(s, dt) ==
    /\ Len(s) = 10 /\ s[5] = "-" /\ s[8] = "-"
    /\ \A k \in {1, 2, 3, 4, 6, 7, 9, 10} : s[k] \in Digits
    /\ DecValue(SubSeq(s, 1, 4)) = dt.year
    /\ DecValue(SubSeq(s, 6, 7)) = dt.month
    /\ DecValue(SubSeq(s, 9, 10)) = dt.day

RECURSIVE DaysFrom(_, _)
\* n calendar days, the first one d
DaysFrom(d, n) == IF n = 0 THEN <<>> ELSE <<d>> \o DaysFrom(DayAfter(d), n - 1)

HasLineBreak(c) ==
    \E f \in {"nom_cours", "heure_debut", "heure_fin", "salle", "prof", "teams"} :
        \E k \in 1..Len(c[f]) : c[f][k] = "\n"

\* C3 as stated: after a run that completes, the output is the header line
\* followed by exactly one line per record fetched, days ascending, each
\* day's records in page order, each line with the ISO date of its day.
C3_HeaderThenOneLinePerRecord ==
    pc = "done" =>
        \A recs \in {RecordsFetched}, lines \in {Lines(stdout)} :
            /\ Len(lines) = 1 + Len(recs)
            /\ lines[1] = HeaderLine
            /\ \A k \in 1..Len(recs) : lines[1 + k] = format_cours(recs[k])

\* C3, amended: after a run that completes, the output is the header line,
\* an empty line, then one printed entry per record fetched and nothing
\* else; the entries are those of Monday's page first and so on day after
\* day, each page's records in page order, none dropped, merged or moved,
\* each beginning with the ISO date of the day whose page gave it; an entry
\* is one line when no field of its record holds a line break.
C3_ReportOfTheWeek ==
    pc = "done" =>
        \A fetches \in {Fetches}, recs \in {RecordsFetched},
           days \in {DaysOfRecords}, lines \in {Lines(stdout)} :
            /\ Len(fetches) = 7
            /\ weekday(fetches[1].day) = 0
            /\ [k \in 1..7 |-> fetches[k].day] = DaysFrom(fetches[1].day, 7)
            /\ all_cours_week = recs
            /\ \A k \in 1..Len(recs) : IsIsoOf(recs[k].date, days[k])
            /\ stdout = HeaderLine \o <<"\n", "\n">>
                          \o Flatten([k \in 1..Len(recs) |->
                                        format_cours(recs[k]) \o <<"\n">>])
            /\ \A k \in 1..Len(recs) :
                  SubSeq(format_cours(recs[k]), 1, 11) = <<"- ">> \o recs[k].date
            /\ ((\A k \in 1..Len(recs) : ~HasLineBreak(recs[k]))
                  => /\ Len(lines) = 2 + Len(recs)
                     /\ lines[1] = HeaderLine
                     /\ lines[2] = <<>>
                     /\ \A k \in 1..Len(recs) :
                           lines[2 + k] = format_cours(recs[k]))

\* the first day's page gave 2 records, the second day's none (nor any
\* later day's): 2 entries, both with Monday's date, in page order
C3_Witness ==
    /\ pc = "done"
    /\ Len(Fetches) = 7
    /\ Fetches[1].page = PageTwo
    /\ \A k \in 2..7 : Fetches[k].page = PageNone
    /\ Len(all_cours_week) = 2
    /\ all_cours_week[1].heure_debut = Chars_0800
    /\ all_cours_week[2].heure_debut = <<>>
    /\ \A k \in 1..2 : all_cours_week[k].date = isoformat(monday)
    /\ Len(Lines(stdout)) = 4

\* C5: a run ended by an uncaught error has status 1 and has written
\* nothing, whatever it had collected; something is written, and the
\* status is 0, only in a run that went through every step.
C5_NoReportOnError ==
    /\ (pc = "aborted" => exit_status = <<1>> /\ stdout = <<>>)
    /\ (HasEvent("error") => pc = "aborted")
    /\ (stdout # <<>> => pc = "done" /\ exit_status = <<0>>)
    /\ (exit_status = <<0>> =>
            /\ pc = "done"
            /\ ~HasEvent("error")
            /\ CountEvents("open") = 1 /\ CountEvents("login") = 1
            /\ CountEvents("fetch") = 7 /\ CountEvents("extract") = 7
            /\ CountEvents("close") = 1
            /\ Lines(stdout)[1] = HeaderLine)
    /\ (exit_status = <<>> => pc \notin {"done", "aborted"})

\* an error at the fetch of a later day, records of earlier days in memory
C5_Witness ==
    /\ pc = "aborted"
    /\ CountEvents("extract") >= 2
    /\ Len(all_cours_week) >= 2
    /\ stdout = <<>>
    /\ exit_status = <<1>>

Shape(e) == [op |-> e.op, day |-> e.day]

\* what the session does for the 7 days given, in order
SessionOn(days) ==
    << [op |-> "open", day |-> NoDate], [op |-> "login", day |-> NoDate] >>
      \o [k \in 1..14 |->
            [op |-> IF k % 2 = 1 THEN "fetch" ELSE "extract",
             day |-> days[(k + 1) \div 2]]]
      \o << [op |-> "close", day |-> NoDate], [op |-> "print", day |-> NoDate] >>

\* the history, but for an error ending it
Performed ==
    IF events # <<>> /\ events[Len(events)].op = "error"
    THEN SubSeq(events, 1, Len(events) - 1) ELSE events

\* C8: what a run has done is at every moment the beginning of: open,
\* login, then for each of the 7 days from Monday on the fetch of that day
\* and its extraction, then close, then print; a run that completes has
\* done all of it, each step once.
C8_SessionOrder ==
    /\ \A done \in {Performed}, week \in {DaysFrom(monday, 7)} :
          [k \in 1..Len(done) |-> Shape(done[k])]
              = SubSeq(SessionOn(week), 1, Len(done))
    /\ (pc = "done" =>
            /\ Len(events) = 18
            /\ weekday(monday) = 0
            /\ browser = "closed" /\ playwright = "stopped")
    /\ (stdout # <<>> => HasEvent("close"))
    /\ (pc = "extract" => events[Len(events)].op = "fetch")
    /\ (pc = "fetch" => events[Len(events)].op \in {"login", "extract"})

\* a completed run
C8_Witness ==
    /\ pc = "done"
    /\ Len(events) = 18
    /\ events[3].day = monday /\ events[15].day = days_of_week[7]
    /\ events[17].op = "close" /\ events[18].op = "print"

C9_WitnessLogin ==
    /\ pc = "aborted"
    /\ HasEvent("open") /\ ~HasEvent("login")
    /\ browser = "open"

\* the login step with the site refusing the credentials and no error raised
LoginRefused == Login /\ authenticated' = "no"

\* C10: the login step can end with the credentials refused and the run
\* going on to the first fetch; with the credentials refused each fetch,
\* the close and the print can be taken as they are otherwise, each
\* extraction works on the page just fetched, the run ends early only by
\* an error, and the run that meets none fetches and extracts the 7 days,
\* closes the browser and prints.
C10_LoginOutcomeIgnored ==
    /\ (pc = "login" => ENABLED LoginRefused)
    /\ (authenticated = "no" =>
            /\ pc \in {"fetch", "extract", "close", "print", "done", "aborted"}
            /\ (pc = "fetch" => ENABLED Fetch)
            /\ (pc = "extract" => events[Len(events)].page = html)
            /\ (pc = "close" => ENABLED Close)
            /\ (pc = "print" => ENABLED PrintReport)
            /\ (pc = "aborted" => HasEvent("error"))
            /\ (pc = "done" =>
                    /\ CountEvents("fetch") = 7 /\ CountEvents("extract") = 7
                    /\ browser = "closed"
                    /\ Lines(stdout)[1] = HeaderLine
                    /\ exit_status = <<0>>))

\* a run completed after a refused login, with records in its report
C10_Witness ==
    /\ pc = "done"
    /\ authenticated = "no"
    /\ Len(all_cours_week) >= 1
    /\ exit_status = <<0>>

====
